---- MODULE Spec2Model ----
(***************************************************************************)
(* Model of src/app.py: the /get-people entity co-occurrence computation.  *)
(* A worker handles a request by running handle_text_file_computation over *)
(* the lines of a text; every PERSON / LOC span found by the NER pipeline  *)
(* is handed to handle_positional_entity_update, one span per step.        *)
(*                                                                         *)
(* Python dicts are insertion ordered: a dict is modelled as the sequence  *)
(* of its <<key, value>> entries in insertion order.                       *)
(***************************************************************************)
EXTENDS Integers, Sequences, FiniteSets, TLC

VARIABLES pc, quota, text_lines, line_no, ent_no, word_number_offset,
          output_dict, people_entities_buffer, loc_entities_buffer,
          output, seen, completed,
          request_json_data, url_result, response, calls

vars == <<pc, quota, text_lines, line_no, ent_no, word_number_offset,
          output_dict, people_entities_buffer, loc_entities_buffer,
          output, seen, completed,
          request_json_data, url_result, response, calls>>

\* the request a worker is sent and what a GET of its URL results in
env == <<quota, text_lines, request_json_data, url_result>>

-----------------------------------------------------------------------------
(* Bounds of the model *)

\* most recognised spans in a generated document (main specification)
MaxEntities == 3

\* most recognised spans in a generated document (concurrent specification)
MaxConcEntities == 2

\* most requests one worker handles in the concurrent specification
MaxRuns == 2

(* Program constant: max_range=100 passed at both call sites *)
max_range == 100

\* the worker threads of the server
Procs == {1, 2}

-----------------------------------------------------------------------------
(* The NER pipeline's result for a text: one Doc per line, each with its   *)
(* token count and its entity spans (label, text, line-local token start   *)
(* and exclusive end).  Spans of one Doc never overlap and are in order.   *)

\* number of tokens of a surface string
TokenLen(name) == IF name = "New York" THEN 2 ELSE 1

\* the spans the generated documents are made of: a label and surface text,
\* the number of tokens that precede the span since the previous span (or
\* the line start), and whether a new line starts before it
MainItems ==
  { [label |-> "PERSON", name |-> n, brk |-> b.brk, lead |-> b.lead] :
        n \in {"Alice", "Bob"},
        b \in { [brk |-> FALSE, lead |-> 0], [brk |-> FALSE, lead |-> 100],
                [brk |-> FALSE, lead |-> 101], [brk |-> TRUE, lead |-> 99] } }
  \cup
  { [label |-> "LOC", name |-> n, brk |-> b.brk, lead |-> b.lead] :
        n \in {"Paris", "New York"},
        b \in { [brk |-> FALSE, lead |-> 0], [brk |-> FALSE, lead |-> 100],
                [brk |-> FALSE, lead |-> 101], [brk |-> TRUE, lead |-> 99] } }

ConcItems ==
  { [label |-> "PERSON", name |-> "Alice", brk |-> FALSE, lead |-> 0],
    [label |-> "LOC", name |-> "Paris", brk |-> FALSE, lead |-> 0],
    [label |-> "LOC", name |-> "Paris", brk |-> TRUE, lead |-> 101],
    [label |-> "ORG", name |-> "Acme", brk |-> FALSE, lead |-> 0] }

Plans(items, n) == UNION { [1..k -> items] : k \in 0..n }

\* append one span to the Docs built so far
AddSpan(lines, p) ==
  LET n     == Len(lines)
      fresh == n = 0 \/ p.brk
      cur   == IF fresh THEN [len |-> 0, ents |-> <<>>] ELSE lines[n]
      start == cur.len + p.lead
      end   == start + TokenLen(p.name)
      new   == [len  |-> end,
                ents |-> Append(cur.ents, [label |-> p.label, text |-> p.name,
                                           start |-> start, end |-> end])]
  IN  IF fresh THEN Append(lines, new) ELSE [lines EXCEPT ![n] = new]

RECURSIVE BuildDocs(_, _, _)
BuildDocs(plan, i, lines) ==
  IF i > Len(plan) THEN lines
  ELSE BuildDocs(plan, i + 1, AddSpan(lines, plan[i]))

Span(label, name, start, end) ==
  [label |-> label, text |-> name, start |-> start, end |-> end]

\* the two concrete scenarios of the specification's section 8, and a
\* document in which an existing person and an existing location are
\* incremented after later ones were inserted
ScenarioTwoPairs ==
  << [len |-> 254,
      ents |-> << Span("PERSON", "Alice", 0, 1), Span("LOC", "Paris", 5, 6),
                  Span("PERSON", "Bob", 250, 251), Span("LOC", "Rome", 252, 253) >>] >>

ScenarioNowhere ==
  << [len |-> 302,
      ents |-> << Span("PERSON", "Alice", 0, 1), Span("LOC", "Nowhere", 150, 151),
                  Span("PERSON", "Alice", 300, 301) >>] >>

ScenarioOrder ==
  << [len |-> 3,
      ents |-> << Span("PERSON", "Bob", 0, 1), Span("LOC", "Rome", 1, 2),
                  Span("PERSON", "Alice", 2, 3) >>],
     [len |-> 4,
      ents |-> << Span("LOC", "Paris", 0, 1), Span("LOC", "Rome", 1, 2),
                  Span("PERSON", "Bob", 3, 4) >>] >>

ScenarioDocs == {ScenarioTwoPairs, ScenarioNowhere, ScenarioOrder}

MainDocs == { BuildDocs(p, 1, <<>>) : p \in Plans(MainItems, MaxEntities) }
               \cup ScenarioDocs

ConcDocs == { BuildDocs(p, 1, <<>>) : p \in Plans(ConcItems, MaxConcEntities) }

-----------------------------------------------------------------------------
(* Python dict, insertion ordered *)

HasKey(d, k) == \E i \in DOMAIN d : d[i].key = k

KeyIndex(d, k) == CHOOSE i \in DOMAIN d : d[i].key = k

Lookup(d, k) == d[KeyIndex(d, k)].value

\* d[k] = v : a new key goes last, an existing key keeps its place
Store(d, k, v) ==
  IF HasKey(d, k) THEN [d EXCEPT ![KeyIndex(d, k)].value = v]
  ELSE Append(d, [key |-> k, value |-> v])

\* list(d.values())
Values(d) == [i \in DOMAIN d |-> d[i].value]

abs(x) == IF x < 0 THEN -x ELSE x

-----------------------------------------------------------------------------
(* The update engine *)

\* variant: an existing location is removed and inserted again with the
\* incremented count, so it moves to the end of the dict
update_locations_reinsert(locations, location_name) ==
  IF ~HasKey(locations, location_name)
  THEN Append(locations, [key |-> location_name,
                          value |-> [name |-> location_name, count |-> 1]])
  ELSE LET old  == Lookup(locations, location_name)
           rest == SelectSeq(locations, LAMBDA e : e.key # location_name)
       IN  Append(rest, [key |-> location_name,
                         value |-> [old EXCEPT !.count = @ + 1]])

\* variant: the increment sits in an else branch, so a new location stays 0
update_locations_noinc(locations, location_name) ==
  IF ~HasKey(locations, location_name)
  THEN Append(locations, [key |-> location_name,
                          value |-> [name |-> location_name, count |-> 0]])
  ELSE [locations EXCEPT ![KeyIndex(locations, location_name)].value.count = @ + 1]

\* NamedEntityDict(name=location_name, count=0)
new_location_record(location_name) == [name |-> location_name, count |-> 0]

update_locations(locations, location_name) ==
  LET created == IF ~HasKey(locations, location_name)
                 THEN Store(locations, location_name,
                            new_location_record(location_name))
                 ELSE locations
  IN  Store(created, location_name,
            [Lookup(created, location_name) EXCEPT !.count = @ + 1])

\* variant: the comparison is >= instead of >
handle_positional_entity_buffer_ge(positional_entity_buffer, end, start, iteration, range) ==
  [is_outside_max_range   |-> abs(end - start) >= range,
   positional_entity_buffer |-> positional_entity_buffer]

\* The slice positional_entity_buffer[len - iteration:] is evaluated and
\* dropped: the buffer the caller holds is returned as it was.
handle_positional_entity_buffer(positional_entity_buffer, end, start, iteration, range) ==
  [is_outside_max_range   |-> abs(end - start) > range,
   positional_entity_buffer |-> positional_entity_buffer]

\* for i, loc in enumerate(reversed(loc_entities_buffer)), from iteration i
RECURSIVE person_scan(_, _, _, _)
person_scan(locations, buffer, entity_dict, i) ==
  IF i >= Len(buffer) THEN [locations |-> locations, buffer |-> buffer]
  ELSE LET loc == buffer[Len(buffer) - i]
           res == handle_positional_entity_buffer(buffer, loc.end,
                                                  entity_dict.start, i, max_range)
       IN  person_scan(update_locations(locations, loc.name),
                       res.positional_entity_buffer, entity_dict, i + 1)

\* variant: a new person record starts at count 1
new_person_record_one(name) == [name |-> name, count |-> 1, locations |-> <<>>]

\* NamedEntityDict(name=name, count=0, locations={})
new_person_record(name) == [name |-> name, count |-> 0, locations |-> <<>>]

\* variant: the scan of the PERSON case ends at the first location outside
\* the range, like the scan of the LOC case
RECURSIVE person_scan_inrange(_, _, _, _)
person_scan_inrange(locations, buffer, entity_dict, i) ==
  IF i >= Len(buffer) THEN locations
  ELSE LET loc == buffer[Len(buffer) - i]
       IN  IF abs(loc.end - entity_dict.start) > max_range THEN locations
           ELSE person_scan_inrange(update_locations(locations, loc.name),
                                    buffer, entity_dict, i + 1)

handle_person_entity_update_inrange(st, entity_dict) ==
  LET name    == entity_dict.name
      created == IF ~HasKey(st.output_dict, name)
                 THEN Store(st.output_dict, name, new_person_record(name))
                 ELSE st.output_dict
      counted == Store(created, name,
                       [Lookup(created, name) EXCEPT !.count = @ + 1])
      locs    == person_scan_inrange(Lookup(counted, name).locations,
                                     st.loc_entities_buffer, entity_dict, 0)
  IN  [output_dict |-> Store(counted, name,
                             [Lookup(counted, name) EXCEPT !.locations = locs]),
       people_entities_buffer |-> Append(st.people_entities_buffer, entity_dict),
       loc_entities_buffer    |-> st.loc_entities_buffer]

\* variant: the record of a new name is not created
handle_person_entity_update_norecord(st, entity_dict) ==
  LET name == entity_dict.name
      counted == Store(st.output_dict, name,
                       [Lookup(st.output_dict, name) EXCEPT !.count = @ + 1])
      scan    == person_scan(Lookup(counted, name).locations,
                             st.loc_entities_buffer, entity_dict, 0)
  IN  IF HasKey(st.output_dict, name)
      THEN [output_dict |-> Store(counted, name,
                               [Lookup(counted, name) EXCEPT
                                   !.locations = scan.locations]),
            people_entities_buffer |-> Append(st.people_entities_buffer, entity_dict),
            loc_entities_buffer    |-> scan.buffer]
      ELSE [st EXCEPT !.people_entities_buffer = Append(@, entity_dict)]

handle_person_entity_update(st, entity_dict) ==
  LET people  == Append(st.people_entities_buffer, entity_dict)
      name    == entity_dict.name
      created == IF ~HasKey(st.output_dict, name)
                 THEN Store(st.output_dict, name, new_person_record(name))
                 ELSE st.output_dict
      counted == Store(created, name,
                       [Lookup(created, name) EXCEPT !.count = @ + 1])
      scan    == person_scan(Lookup(counted, name).locations,
                             st.loc_entities_buffer, entity_dict, 0)
  IN  [output_dict |-> Store(counted, name,
                             [Lookup(counted, name) EXCEPT
                                 !.locations = scan.locations]),
       people_entities_buffer |-> people,
       loc_entities_buffer    |-> scan.buffer]

\* for i, person in enumerate(reversed(people_entities_buffer)), from
\* iteration i; the scan ends at the first person outside the range
RECURSIVE loc_scan(_, _, _, _)
loc_scan(dict, buffer, entity_dict, i) ==
  IF i >= Len(buffer) THEN [output_dict |-> dict, buffer |-> buffer]
  ELSE LET person == buffer[Len(buffer) - i]
           res    == handle_positional_entity_buffer(buffer, person.end,
                                                     entity_dict.start, i, max_range)
       IN  IF res.is_outside_max_range
           THEN [output_dict |-> dict, buffer |-> res.positional_entity_buffer]
           ELSE LET rec == Lookup(dict, person.name)
                    upd == [rec EXCEPT !.locations =
                               update_locations(@, entity_dict.name)]
                IN  loc_scan(Store(dict, person.name, upd),
                             res.positional_entity_buffer, entity_dict, i + 1)

\* variant: the scan of the LOC case does not stop and updates every person
RECURSIVE loc_scan_always(_, _, _, _)
loc_scan_always(dict, buffer, entity_dict, i) ==
  IF i >= Len(buffer) THEN dict
  ELSE LET person == buffer[Len(buffer) - i]
           rec    == Lookup(dict, person.name)
           upd    == [rec EXCEPT !.locations =
                         update_locations(@, entity_dict.name)]
       IN  loc_scan_always(Store(dict, person.name, upd), buffer,
                           entity_dict, i + 1)

handle_loc_entity_update_always(st, entity_dict) ==
  [output_dict            |-> loc_scan_always(st.output_dict,
                                 st.people_entities_buffer, entity_dict, 0),
   people_entities_buffer |-> st.people_entities_buffer,
   loc_entities_buffer    |-> Append(st.loc_entities_buffer, entity_dict)]

handle_loc_entity_update(st, entity_dict) ==
  LET locs == Append(st.loc_entities_buffer, entity_dict)
      scan == loc_scan(st.output_dict, st.people_entities_buffer, entity_dict, 0)
  IN  [output_dict            |-> scan.output_dict,
       people_entities_buffer |-> scan.buffer,
       loc_entities_buffer    |-> locs]

\* variant: the label test is lost and every span is handled as a person
handle_positional_entity_update_allperson(st, entity_dict, label) ==
  handle_person_entity_update(st, entity_dict)

\* variant: the label test is inverted
handle_positional_entity_update_swapped(st, entity_dict, label) ==
  IF label # "PERSON" THEN handle_person_entity_update(st, entity_dict)
  ELSE handle_loc_entity_update(st, entity_dict)

handle_positional_entity_update(st, entity_dict, label) ==
  IF label = "PERSON" THEN handle_person_entity_update(st, entity_dict)
  ELSE handle_loc_entity_update(st, entity_dict)

\* the conversion of the aggregate map into the response list
project_output(dict) ==
  [i \in DOMAIN dict |->
      [name      |-> dict[i].value.name,
       count     |-> dict[i].value.count,
       locations |-> Values(dict[i].value.locations)]]

-----------------------------------------------------------------------------
(* Steps of one worker *)

EngineState(r) ==
  [output_dict            |-> output_dict[r],
   people_entities_buffer |-> people_entities_buffer[r],
   loc_entities_buffer    |-> loc_entities_buffer[r]]

NoResponse == [status |-> 0, kind |-> "none"]

\* flask.make_response(body, status): the status is 200 when none is given
make_response(kind, status) == [status |-> status, kind |-> kind]

make_response_default(kind) == [status |-> 200, kind |-> kind]

\* isinstance(url, str) on a JSON value, held as its type and its text
isinstance_str(value) == value.type = "string"

\* the verdict of handle_json_data on a request body: the response of the
\* BadRequest it raises, or NoResponse when it returns
handle_json_data_check(json_data) ==
  IF "URL" \notin DOMAIN json_data
  THEN make_response("BadRequest", 400)
  ELSE IF ~isinstance_str(json_data["URL"])
       THEN make_response_default("BadRequest")
       ELSE NoResponse

\* the exception requests.get raises for a result of the GET, "" for none
raised_by_get(result) ==
  IF result \in {"TimeoutError", "requests.exceptions.Timeout"} THEN result
  ELSE ""

\* the verdict of handle_download_file on a result of the GET: the error
\* response the client gets, or NoResponse when the text is returned.
\* except TimeoutError catches the builtin only; requests' own Timeout is
\* an OSError that is not a TimeoutError and leaves the handler uncaught,
\* which the server answers with 500.
handle_download_file_check(result) ==
  IF raised_by_get(result) = "TimeoutError"
  THEN make_response("GatewayTimeout", 504)
  ELSE IF raised_by_get(result) # ""
       THEN make_response("InternalServerError", 500)
       ELSE IF result # "ok"
            THEN make_response("BadRequest", 400)
            ELSE NoResponse

\* a request arrives: request.get_json(force=True)
get_people(r) ==
  /\ pc[r] \in {"idle", "done", "failed"}
  /\ Len(completed[r]) < quota[r]
  /\ pc' = [pc EXCEPT ![r] = "received"]
  /\ response' = [response EXCEPT ![r] = NoResponse]
  /\ calls' = [calls EXCEPT ![r] = <<"get_json">>]
  /\ UNCHANGED <<env, line_no, ent_no, word_number_offset,
                 output_dict, people_entities_buffer, loc_entities_buffer,
                 output, seen, completed>>

\* handle_json_data(request_json_data): returns or raises BadRequest
handle_json_data(r) ==
  /\ pc[r] = "received"
  /\ LET verdict == handle_json_data_check(request_json_data[r])
     IN  /\ response' = [response EXCEPT ![r] = verdict]
         /\ pc' = [pc EXCEPT ![r] =
                     IF verdict = NoResponse THEN "validated" ELSE "failed"]
  /\ calls' = [calls EXCEPT ![r] = Append(@, "handle_json_data")]
  /\ UNCHANGED <<env, line_no, ent_no, word_number_offset,
                 output_dict, people_entities_buffer, loc_entities_buffer,
                 output, seen, completed>>

\* handle_download_file(request_json_data["URL"])
handle_download_file(r) ==
  /\ pc[r] = "validated"
  /\ LET verdict == handle_download_file_check(url_result[r])
     IN  /\ response' = [response EXCEPT ![r] = verdict]
         /\ pc' = [pc EXCEPT ![r] =
                     IF verdict = NoResponse THEN "ready" ELSE "failed"]
  /\ calls' = [calls EXCEPT ![r] = Append(@, "handle_download_file")]
  /\ UNCHANGED <<env, line_no, ent_no, word_number_offset,
                 output_dict, people_entities_buffer, loc_entities_buffer,
                 output, seen, completed>>

\* variant: loc_entities_buffer is a list that outlives the call and is
\* never emptied
begin_computation_noreset(r) ==
  /\ pc[r] = "ready"
  /\ pc' = [pc EXCEPT ![r] = "computing"]
  /\ output_dict' = [output_dict EXCEPT ![r] = <<>>]
  /\ people_entities_buffer' = [people_entities_buffer EXCEPT ![r] = <<>>]
  /\ word_number_offset' = [word_number_offset EXCEPT ![r] = 0]
  /\ line_no' = [line_no EXCEPT ![r] = 1]
  /\ ent_no' = [ent_no EXCEPT ![r] = 1]
  /\ seen' = [seen EXCEPT ![r] = <<>>]
  /\ output' = [output EXCEPT ![r] = <<>>]
  /\ calls' = [calls EXCEPT ![r] = Append(@, "handle_text_file_computation")]
  /\ UNCHANGED <<env, response, completed, loc_entities_buffer>>

\* variant: the two buffers are module-level lists that every call empties
begin_computation_shared(r) ==
  /\ pc[r] = "ready"
  /\ pc' = [pc EXCEPT ![r] = "computing"]
  /\ output_dict' = [output_dict EXCEPT ![r] = <<>>]
  /\ people_entities_buffer' = [q \in Procs |-> <<>>]
  /\ loc_entities_buffer' = [q \in Procs |-> <<>>]
  /\ word_number_offset' = [word_number_offset EXCEPT ![r] = 0]
  /\ line_no' = [line_no EXCEPT ![r] = 1]
  /\ ent_no' = [ent_no EXCEPT ![r] = 1]
  /\ seen' = [seen EXCEPT ![r] = <<>>]
  /\ output' = [output EXCEPT ![r] = <<>>]
  /\ calls' = [calls EXCEPT ![r] = Append(@, "handle_text_file_computation")]
  /\ UNCHANGED <<env, response, completed>>

\* handle_text_file_computation up to the loop: the call's own locals
begin_computation(r) ==
  /\ pc[r] = "ready"
  /\ pc' = [pc EXCEPT ![r] = "computing"]
  /\ output_dict' = [output_dict EXCEPT ![r] = <<>>]
  /\ people_entities_buffer' = [people_entities_buffer EXCEPT ![r] = <<>>]
  /\ loc_entities_buffer' = [loc_entities_buffer EXCEPT ![r] = <<>>]
  /\ word_number_offset' = [word_number_offset EXCEPT ![r] = 0]
  /\ line_no' = [line_no EXCEPT ![r] = 1]
  /\ ent_no' = [ent_no EXCEPT ![r] = 1]
  /\ seen' = [seen EXCEPT ![r] = <<>>]
  /\ output' = [output EXCEPT ![r] = <<>>]
  /\ calls' = [calls EXCEPT ![r] = Append(@, "handle_text_file_computation")]
  /\ UNCHANGED <<env, response, completed>>

\* variant: the label test is missing
is_handled_label_any(label) == TRUE

\* the test  label not in ["PERSON", "LOC"]  negated
is_handled_label(label) == label \in {"PERSON", "LOC"}

\* one iteration of the loop over doc.ents
handle_entities_from_doc(r) ==
  /\ pc[r] = "computing"
  /\ line_no[r] <= Len(text_lines[r])
  /\ ent_no[r] <= Len(text_lines[r][line_no[r]].ents)
  /\ LET entity == text_lines[r][line_no[r]].ents[ent_no[r]]
         label  == entity.label
         entity_dict == [name  |-> entity.text,
                         start |-> entity.start + word_number_offset[r],
                         end   |-> entity.end + word_number_offset[r]]
         st == IF ~is_handled_label(label) THEN EngineState(r)
               ELSE handle_positional_entity_update(EngineState(r),
                                                    entity_dict, label)
     IN  /\ output_dict' = [output_dict EXCEPT ![r] = st.output_dict]
         /\ people_entities_buffer' =
               [people_entities_buffer EXCEPT ![r] = st.people_entities_buffer]
         /\ loc_entities_buffer' =
               [loc_entities_buffer EXCEPT ![r] = st.loc_entities_buffer]
         /\ seen' = [seen EXCEPT ![r] =
               IF ~is_handled_label(label) THEN @
               ELSE Append(@, [label |-> label, name |-> entity_dict.name,
                               start |-> entity_dict.start,
                               end |-> entity_dict.end])]
  /\ ent_no' = [ent_no EXCEPT ![r] = @ + 1]
  /\ UNCHANGED <<pc, env, line_no, word_number_offset,
                 output, completed, response, calls>>

\* variant: the offset is not advanced at the end of a Doc
next_doc_nooffset(r) ==
  /\ pc[r] = "computing"
  /\ line_no[r] <= Len(text_lines[r])
  /\ ent_no[r] > Len(text_lines[r][line_no[r]].ents)
  /\ line_no' = [line_no EXCEPT ![r] = @ + 1]
  /\ ent_no' = [ent_no EXCEPT ![r] = 1]
  /\ UNCHANGED <<pc, env, output_dict, people_entities_buffer, word_number_offset,
                 loc_entities_buffer, output, seen, completed, response, calls>>

\* the end of one Doc: word_number_offset += len(doc)
next_doc(r) ==
  /\ pc[r] = "computing"
  /\ line_no[r] <= Len(text_lines[r])
  /\ ent_no[r] > Len(text_lines[r][line_no[r]].ents)
  /\ word_number_offset' = [word_number_offset EXCEPT ![r] =
                               @ + text_lines[r][line_no[r]].len]
  /\ line_no' = [line_no EXCEPT ![r] = @ + 1]
  /\ ent_no' = [ent_no EXCEPT ![r] = 1]
  /\ UNCHANGED <<pc, env, output_dict, people_entities_buffer,
                 loc_entities_buffer, output, seen, completed, response, calls>>

\* after the loop: the output list is built and returned, and get_people
\* answers with make_response({**request_json_data, "people": output}, 200)
finish_computation(r) ==
  /\ pc[r] = "computing"
  /\ line_no[r] > Len(text_lines[r])
  /\ output' = [output EXCEPT ![r] = project_output(output_dict[r])]
  /\ completed' = [completed EXCEPT ![r] =
                      Append(@, project_output(output_dict[r]))]
  /\ pc' = [pc EXCEPT ![r] = "done"]
  /\ response' = [response EXCEPT ![r] =
                    [status |-> 200, kind |-> "people",
                     people |-> project_output(output_dict[r])]]
  /\ calls' = [calls EXCEPT ![r] = Append(@, "make_response")]
  /\ UNCHANGED <<env, line_no, ent_no, word_number_offset,
                 output_dict, people_entities_buffer, loc_entities_buffer,
                 seen>>

-----------------------------------------------------------------------------

\* request bodies (JSON objects): a string URL, a URL that is not a
\* string, and no URL field
ValidJson == [URL |-> [type |-> "string", text |-> "http://example.org/text"]]

JsonBodies ==
  { ValidJson,
    [URL |-> [type |-> "number", text |-> "5"]],
    [link |-> [type |-> "string", text |-> "http://example.org/text"]] }

\* results of the GET: a response that is ok or not ok, or a timeout, which
\* requests reports as requests.exceptions.Timeout (its ConnectTimeout and
\* ReadTimeout) and a lower layer could report as the builtin TimeoutError
UrlResults == {"ok", "not_ok", "requests.exceptions.Timeout", "TimeoutError"}

\* the requests of the main specification: a good request for any generated
\* text, and every other request for one text with persons and locations
MainCases ==
  { [json |-> ValidJson, result |-> "ok", text |-> d] : d \in MainDocs }
  \cup
  { [json |-> c[1], result |-> c[2], text |-> ScenarioTwoPairs] :
       c \in { x \in JsonBodies \X UrlResults :
                 ~(x[1] = ValidJson /\ x[2] = "ok") } }

InitLocals ==
  /\ pc = [r \in Procs |-> "idle"]
  /\ line_no = [r \in Procs |-> 1]
  /\ ent_no = [r \in Procs |-> 1]
  /\ word_number_offset = [r \in Procs |-> 0]
  /\ output_dict = [r \in Procs |-> <<>>]
  /\ people_entities_buffer = [r \in Procs |-> <<>>]
  /\ loc_entities_buffer = [r \in Procs |-> <<>>]
  /\ output = [r \in Procs |-> <<>>]
  /\ seen = [r \in Procs |-> <<>>]
  /\ completed = [r \in Procs |-> <<>>]
  /\ response = [r \in Procs |-> NoResponse]
  /\ calls = [r \in Procs |-> <<>>]

\* one worker, one request
Init ==
  /\ InitLocals
  /\ quota = [r \in Procs |-> IF r = 1 THEN 1 ELSE 0]
  /\ \E c \in MainCases :
        /\ text_lines = [r \in Procs |-> IF r = 1 THEN c.text ELSE <<>>]
        /\ request_json_data = [r \in Procs |-> IF r = 1 THEN c.json ELSE ValidJson]
        /\ url_result = [r \in Procs |-> IF r = 1 THEN c.result ELSE "ok"]

\* two workers, each handling a good request for its own text up to
\* MaxRuns times
InitConc ==
  /\ InitLocals
  /\ quota = [r \in Procs |-> MaxRuns]
  /\ text_lines \in [Procs -> ConcDocs]
  /\ request_json_data = [r \in Procs |-> ValidJson]
  /\ url_result = [r \in Procs |-> "ok"]

Next ==
  \E r \in Procs :
     \/ get_people(r)
     \/ handle_json_data(r)
     \/ handle_download_file(r)
     \/ begin_computation(r)
     \/ handle_entities_from_doc(r)
     \/ next_doc(r)
     \/ finish_computation(r)

Spec == Init /\ [][Next]_vars

SpecConc == InitConc /\ [][Next]_vars

-----------------------------------------------------------------------------
(* Reference notions used by the properties.  seen[r] is the stream of     *)
(* PERSON / LOC spans, with the positions the engine was given, that       *)
(* worker r's current computation has consumed so far.                     *)

PersonNames == {"Alice", "Bob"}

LocNames == {"Paris", "New York", "Rome", "Nowhere"}

IsPerson(e) == e.label = "PERSON"

IsLoc(e) == e.label = "LOC"

\* distance of two spans of a stream, i before j
Dist(s, i, j) == abs(s[i].end - s[j].start)

\* the (PERSON P, LOC L) pairs of a stream, earlier span first
PairsOf(s, P, L) ==
  { pr \in (DOMAIN s) \X (DOMAIN s) :
      /\ pr[1] < pr[2]
      /\ \/ IsPerson(s[pr[1]]) /\ s[pr[1]].name = P
            /\ IsLoc(s[pr[2]]) /\ s[pr[2]].name = L
         \/ IsLoc(s[pr[1]]) /\ s[pr[1]].name = L
            /\ IsPerson(s[pr[2]]) /\ s[pr[2]].name = P }

InRangePairs(s, P, L) ==
  { pr \in PairsOf(s, P, L) : Dist(s, pr[1], pr[2]) <= 100 }

\* the count stored for L under P in the aggregate map (0: no record)
LocCount(dict, P, L) ==
  IF HasKey(dict, P) /\ HasKey(Lookup(dict, P).locations, L)
  THEN Lookup(Lookup(dict, P).locations, L).count
  ELSE 0

HasLocRecord(dict, P, L) ==
  HasKey(dict, P) /\ HasKey(Lookup(dict, P).locations, L)

\* the same, read from a projected output list
OutHasLoc(out, P, L) ==
  \E i \in DOMAIN out : /\ out[i].name = P
                        /\ \E k \in DOMAIN out[i].locations :
                              out[i].locations[k].name = L

Keys(d) == [i \in DOMAIN d |-> d[i].key]

NamesOf(list) == [i \in DOMAIN list |-> list[i].name]

IsPrefix(a, b) == Len(a) <= Len(b) /\ SubSeq(b, 1, Len(a)) = a

\* the person names of a stream in the order of their first PERSON span
RECURSIVE FirstPersons(_, _, _)
FirstPersons(s, i, acc) ==
  IF i > Len(s) THEN acc
  ELSE FirstPersons(s, i + 1,
         IF IsPerson(s[i]) /\ ~(\E k \in DOMAIN acc : acc[k] = s[i].name)
         THEN Append(acc, s[i].name) ELSE acc)

PersonSpans(s, n) == { i \in DOMAIN s : IsPerson(s[i]) /\ s[i].name = n }

HasPersonSpan(lines) ==
  \E l \in DOMAIN lines : \E k \in DOMAIN lines[l].ents :
      lines[l].ents[k].label = "PERSON"

HasLocSpan(lines) ==
  \E l \in DOMAIN lines : \E k \in DOMAIN lines[l].ents :
      lines[l].ents[k].label = "LOC"

-----------------------------------------------------------------------------
(* C1: after any consumed stream, for every person P and location L the    *)
(* count stored for L under P equals the number of (P span, L span) pairs  *)
(* of the stream at distance at most 100, and L has no record under P when *)
(* that number is 0.                                                       *)
C1_CountEqualsInRangePairs ==
  \A r \in Procs : \A P \in PersonNames : \A L \in LocNames :
     /\ LocCount(output_dict[r], P, L) = Cardinality(InRangePairs(seen[r], P, L))
     /\ HasLocRecord(output_dict[r], P, L) => InRangePairs(seen[r], P, L) # {}

(* C2: a location appears under a person in the output only if some span  *)
(* of that person and some span of that location are within 100; the two   *)
(* scenario streams give exactly the stated outputs.                       *)
C2_OnlyInRangeLocations ==
  \A r \in Procs : pc[r] = "done" =>
     /\ \A P \in PersonNames : \A L \in LocNames :
           OutHasLoc(output[r], P, L) => InRangePairs(seen[r], P, L) # {}
     /\ text_lines[r] = ScenarioTwoPairs =>
           output[r] = << [name |-> "Alice", count |-> 1,
                           locations |-> << [name |-> "Paris", count |-> 1] >>],
                          [name |-> "Bob", count |-> 1,
                           locations |-> << [name |-> "Rome", count |-> 1] >>] >>
     /\ text_lines[r] = ScenarioNowhere =>
           output[r] = << [name |-> "Alice", count |-> 2, locations |-> <<>>] >>

\* the earlier spans of the other kind that the span appended last to s'
\* forms a (P, L) pair with
Candidates(s, e, P, L) ==
  { i \in DOMAIN s :
      \/ IsPerson(e) /\ e.name = P /\ IsLoc(s[i]) /\ s[i].name = L
      \/ IsLoc(e) /\ e.name = L /\ IsPerson(s[i]) /\ s[i].name = P }

(* C3: in the step that consumes a span, every earlier span of the other   *)
(* kind at distance exactly 100 adds one to the count of its (P, L) pair,  *)
(* and a span at distance exactly 101 adds nothing, whichever came first.  *)
C3_BoundaryStep ==
  [][ \A r \in Procs :
        Len(seen'[r]) = Len(seen[r]) + 1 =>
          LET e == seen'[r][Len(seen'[r])]
          IN  \A P \in PersonNames : \A L \in LocNames :
                LET cand == Candidates(seen[r], e, P, L)
                    at100 == { i \in cand : abs(seen[r][i].end - e.start) = 100 }
                    at101 == { i \in cand : abs(seen[r][i].end - e.start) = 101 }
                    inc == LocCount(output_dict'[r], P, L)
                             - LocCount(output_dict[r], P, L)
                IN  /\ inc >= Cardinality(at100)
                    /\ inc <= Cardinality(cand) - Cardinality(at101) ]_vars

(* C4: every (P span, L span) pair of the consumed stream at distance at   *)
(* most 100 has L recorded under P with count >= 1, in the aggregate map   *)
(* and in the final output; the early stop of the LOC scan skips no        *)
(* in-range person.                                                        *)
C4_InRangePairsRecorded ==
  \A r \in Procs : \A P \in PersonNames : \A L \in LocNames :
     InRangePairs(seen[r], P, L) # {} =>
        /\ LocCount(output_dict[r], P, L) >= 1
        /\ pc[r] = "done" => OutHasLoc(output[r], P, L)

\* a finished computation in which a LOC scan met an in-range person and
\* then stopped at an older out-of-range one
C4_Witness ==
  \E r \in Procs :
     /\ pc[r] = "done"
     /\ \E i, k, j \in DOMAIN seen[r] :
           /\ i < k /\ k < j
           /\ IsPerson(seen[r][i]) /\ IsPerson(seen[r][k]) /\ IsLoc(seen[r][j])
           /\ Dist(seen[r], i, j) > 100
           /\ Dist(seen[r], k, j) <= 100
           /\ OutHasLoc(output[r], seen[r][k].name, seen[r][j].name)

(* C5: for every name n the count of n's PersonRecord is the number of     *)
(* PERSON spans named n consumed so far, a record exists iff that number   *)
(* is at least 1, and LOC spans do not change it.                          *)
C5_PersonCount ==
  \A r \in Procs : \A n \in PersonNames \cup LocNames :
     /\ HasKey(output_dict[r], n) <=> PersonSpans(seen[r], n) # {}
     /\ HasKey(output_dict[r], n) =>
           Lookup(output_dict[r], n).count = Cardinality(PersonSpans(seen[r], n))

\* a person seen twice, with a LOC span consumed after it
C5_Witness ==
  \E r \in Procs : \E n \in PersonNames :
     /\ HasKey(output_dict[r], n)
     /\ Lookup(output_dict[r], n).count = 2
     /\ Len(seen[r]) >= 3 /\ IsLoc(seen[r][Len(seen[r])])

(* C6: a text without any PERSON span gives the empty output.              *)
C6_NoPersonEmptyOutput ==
  \A r \in Procs :
     (pc[r] = "done" /\ ~HasPersonSpan(text_lines[r])) => output[r] = <<>>

\* a finished computation over LOC spans only
C6_Witness ==
  \E r \in Procs :
     /\ pc[r] = "done"
     /\ ~HasPersonSpan(text_lines[r])
     /\ Len(seen[r]) >= 2
     /\ output[r] = <<>>

(* C7: persons are listed in the order of their first PERSON span and each *)
(* person's locations in the order of their first association; a later     *)
(* increment never moves a person or a location.                           *)
C7_InsertionOrder ==
  [][ \A r \in Procs :
        /\ Keys(output_dict'[r]) = FirstPersons(seen'[r], 1, <<>>)
        /\ (pc[r] = "computing" /\ pc'[r] \in {"computing", "done"}) =>
              /\ IsPrefix(Keys(output_dict[r]), Keys(output_dict'[r]))
              /\ \A i \in DOMAIN output_dict[r] :
                    IsPrefix(Keys(output_dict[r][i].value.locations),
                             Keys(output_dict'[r][i].value.locations))
        /\ pc'[r] = "done" =>
              /\ NamesOf(output'[r]) = FirstPersons(seen'[r], 1, <<>>)
              /\ \A i \in DOMAIN output'[r] :
                    NamesOf(output'[r][i].locations)
                       = Keys(output_dict'[r][i].value.locations) ]_vars

\* an output whose first person and whose first location under it were
\* incremented after a second person and a second location were inserted
C7_Witness ==
  \E r \in Procs :
     /\ pc[r] = "done"
     /\ Len(output[r]) = 2
     /\ output[r][1].count >= 2
     /\ Len(output[r][1].locations) = 2
     /\ output[r][1].locations[1].count >= 2
     /\ seen[r][Len(seen[r])].name = output[r][1].name

(* C8: every PersonRecord and every LocationRecord has count >= 1, in the  *)
(* aggregate map and in the output.                                        *)
C8_CountsPositive ==
  \A r \in Procs :
     /\ \A i \in DOMAIN output_dict[r] :
           /\ output_dict[r][i].value.count >= 1
           /\ \A k \in DOMAIN output_dict[r][i].value.locations :
                 output_dict[r][i].value.locations[k].value.count >= 1
     /\ \A i \in DOMAIN output[r] :
           /\ output[r][i].count >= 1
           /\ \A k \in DOMAIN output[r][i].locations :
                 output[r][i].locations[k].count >= 1

\* an output with a person record that holds a location record
C8_Witness ==
  \E r \in Procs :
     /\ pc[r] = "done"
     /\ \E i \in DOMAIN output[r] : output[r][i].locations # <<>>

(* C9: computations over the same text give the same output, also when a   *)
(* worker ran another computation before.                                  *)
C9_SameTextSameOutput ==
  \A r, q \in Procs :
     text_lines[r] = text_lines[q] =>
        \A i \in DOMAIN completed[r] : \A k \in DOMAIN completed[q] :
           completed[r][i] = completed[q][k]

\* a worker that ran its text twice and found an association
C9_Witness ==
  \E r \in Procs :
     /\ Len(completed[r]) = 2
     /\ \E i \in DOMAIN completed[r][2] : completed[r][2][i].locations # <<>>

\* the output of a text handled alone: the spans of its lines in order
RECURSIVE Alone(_, _, _, _, _)
Alone(lines, l, k, offset, st) ==
  IF l > Len(lines) THEN project_output(st.output_dict)
  ELSE IF k > Len(lines[l].ents)
       THEN Alone(lines, l + 1, 1, offset + lines[l].len, st)
       ELSE LET e == lines[l].ents[k]
            IN  Alone(lines, l, k + 1, offset,
                  IF e.label \in {"PERSON", "LOC"}
                  THEN handle_positional_entity_update(st,
                          [name |-> e.text, start |-> e.start + offset,
                           end |-> e.end + offset], e.label)
                  ELSE st)

EmptyEngine ==
  [output_dict |-> <<>>, people_entities_buffer |-> <<>>,
   loc_entities_buffer |-> <<>>]

(* C10: with the steps of two workers interleaved in any order, each       *)
(* text's output is the output it gets when handled alone.                 *)
C10_IsolatedOutput ==
  \A r \in Procs :
     pc[r] = "done" => output[r] = Alone(text_lines[r], 1, 1, 0, EmptyEngine)

\* worker 1 finished with an association while worker 2, already started,
\* is still in the middle of its own text
C10_Witness ==
  /\ pc[1] = "done"
  /\ \E i \in DOMAIN output[1] : output[1][i].locations # <<>>
  /\ pc[2] = "computing"
  /\ seen[2] # <<>>
  /\ line_no[2] <= Len(text_lines[2])

-----------------------------------------------------------------------------
(* Notions used by the properties of single update steps *)

\* worker r's step consumes a PERSON / LOC span
ConsumesSpan(r) == Len(seen'[r]) = Len(seen[r]) + 1

Last(s) == s[Len(s)]

EntityDictOf(e) == [name |-> e.name, start |-> e.start, end |-> e.end]

\* the increment of L's count under P in worker r's step
Inc(r, P, L) ==
  LocCount(output_dict'[r], P, L) - LocCount(output_dict[r], P, L)

\* the text without the spans whose label is neither PERSON nor LOC
StripOther(lines) ==
  [l \in DOMAIN lines |->
      [len  |-> lines[l].len,
       ents |-> SelectSeq(lines[l].ents,
                          LAMBDA e : e.label \in {"PERSON", "LOC"})]]

HasOtherSpan(lines) ==
  \E l \in DOMAIN lines : \E k \in DOMAIN lines[l].ents :
      lines[l].ents[k].label \notin {"PERSON", "LOC"}

(* C11: a span whose label is neither PERSON nor LOC leaves the aggregate  *)
(* map and both buffers unchanged, and the output of a text is the output  *)
(* of the text without such spans.                                         *)
C11_OtherLabelsIgnored ==
  [][ \A r \in Procs :
        /\ ( /\ pc[r] = "computing"
             /\ ent_no'[r] = ent_no[r] + 1
             /\ text_lines[r][line_no[r]].ents[ent_no[r]].label
                   \notin {"PERSON", "LOC"} )
           => /\ output_dict'[r] = output_dict[r]
              /\ people_entities_buffer'[r] = people_entities_buffer[r]
              /\ loc_entities_buffer'[r] = loc_entities_buffer[r]
              /\ seen'[r] = seen[r]
        /\ pc'[r] = "done" =>
              output'[r] = Alone(StripOther(text_lines[r]), 1, 1, 0, EmptyEngine)
    ]_vars

\* a finished computation over a text with an ignored span and a person
C11_Witness ==
  \E r \in Procs :
     /\ pc[r] = "done"
     /\ HasOtherSpan(text_lines[r])
     /\ HasPersonSpan(text_lines[r])
     /\ output[r] # <<>>

(* C12: after a LOC span is consumed people_buffer holds no PERSON span    *)
(* more than 100 from it, and after a PERSON span loc_buffer holds no LOC  *)
(* span more than 100 from it.                                             *)
C12_OutOfRangeEvicted ==
  \A r \in Procs :
     (pc[r] = "computing" /\ seen[r] # <<>>) =>
        LET e == Last(seen[r])
        IN  /\ IsLoc(e) =>
                 \A i \in DOMAIN people_entities_buffer[r] :
                    abs(people_entities_buffer[r][i].end - e.start) <= 100
            /\ IsPerson(e) =>
                 \A i \in DOMAIN loc_entities_buffer[r] :
                    abs(loc_entities_buffer[r][i].end - e.start) <= 100

\* the persons at the tail of a buffer that are all within 100 of a start
InRangeTail(buffer, start) ==
  { i \in DOMAIN buffer :
      \A k \in i..Len(buffer) : abs(buffer[k].end - start) <= 100 }

(* C13: in the step that consumes a LOC span, each person of people_buffer *)
(* met from the newest before any out-of-range one gets exactly one        *)
(* increment of this location; the first out-of-range person and all older *)
(* ones get none.                                                          *)
C13_LocScanAndStop ==
  [][ \A r \in Procs :
        (ConsumesSpan(r) /\ IsLoc(Last(seen'[r]))) =>
           LET e    == Last(seen'[r])
               buf  == people_entities_buffer[r]
               tail == InRangeTail(buf, e.start)
           IN  \A P \in PersonNames : \A L \in LocNames :
                 Inc(r, P, L) =
                    IF L = e.name
                    THEN Cardinality({ i \in tail : buf[i].name = P })
                    ELSE 0 ]_vars

\* a LOC span was consumed whose scan counted a near person and stopped at
\* an older, far person of another name
C13_Witness ==
  \E r \in Procs :
     /\ pc[r] = "computing"
     /\ seen[r] # <<>>
     /\ IsLoc(Last(seen[r]))
     /\ LET e   == Last(seen[r])
            buf == people_entities_buffer[r]
        IN  \E i, k \in DOMAIN buf :
              /\ i < k
              /\ abs(buf[i].end - e.start) > 100
              /\ abs(buf[k].end - e.start) <= 100
              /\ buf[i].name # buf[k].name
              /\ LocCount(output_dict[r], buf[k].name, e.name) = 1
              /\ LocCount(output_dict[r], buf[i].name, e.name) = 0

RECURSIVE TokensBefore(_, _)
TokensBefore(lines, n) ==
  IF n = 0 THEN 0 ELSE TokensBefore(lines, n - 1) + lines[n].len

\* the PERSON / LOC spans of a text with document-wide positions
RECURSIVE GlobalSpans(_, _)
GlobalSpans(lines, n) ==
  IF n = 0 THEN <<>>
  ELSE GlobalSpans(lines, n - 1) \o
       [k \in DOMAIN StripOther(lines)[n].ents |->
          LET e == StripOther(lines)[n].ents[k]
          IN  [label |-> e.label, name |-> e.text,
               start |-> e.start + TokensBefore(lines, n - 1),
               end   |-> e.end + TokensBefore(lines, n - 1)]]

(* C15: the positions handed to the engine are the line-local positions    *)
(* plus the token counts of all earlier lines; the offset is advanced only *)
(* at the end of a line; the positions are non-decreasing.                 *)
C15_GlobalOffset ==
  \A r \in Procs :
     pc[r] \in {"computing", "done"} =>
        LET all == GlobalSpans(text_lines[r], Len(text_lines[r]))
        IN  /\ Len(seen[r]) <= Len(all)
            /\ seen[r] = SubSeq(all, 1, Len(seen[r]))
            /\ word_number_offset[r] = TokensBefore(text_lines[r], line_no[r] - 1)
            /\ \A i, j \in DOMAIN seen[r] :
                  i < j => seen[r][i].start <= seen[r][j].start

\* the first span of a second line was consumed with a positive offset
C15_Witness ==
  \E r \in Procs :
     /\ pc[r] = "computing"
     /\ line_no[r] = 2 /\ ent_no[r] = 2
     /\ word_number_offset[r] > 0
     /\ Len(seen[r]) >= 2
     /\ Last(seen[r]).start >= word_number_offset[r]

\* the spans of a stream that carry a label, as buffer entries
SpansOf(s, label) ==
  { EntityDictOf(s[i]) : i \in { k \in DOMAIN s : s[k].label = label } }

SortedSpans(buffer) ==
  /\ \A i \in DOMAIN buffer : buffer[i].start <= buffer[i].end
  /\ \A i, j \in DOMAIN buffer : i < j => buffer[i].start <= buffer[j].start

(* C16: every buffer entry has start <= end, each buffer is sorted by      *)
(* start in append order, people_buffer holds only PERSON spans and        *)
(* loc_buffer only LOC spans.                                              *)
C16_BuffersSorted ==
  \A r \in Procs :
     /\ SortedSpans(people_entities_buffer[r])
     /\ SortedSpans(loc_entities_buffer[r])
     /\ pc[r] = "computing" =>
          /\ \A i \in DOMAIN people_entities_buffer[r] :
                people_entities_buffer[r][i] \in SpansOf(seen[r], "PERSON")
          /\ \A i \in DOMAIN loc_entities_buffer[r] :
                loc_entities_buffer[r][i] \in SpansOf(seen[r], "LOC")

\* both buffers hold spans, one of them two
C16_Witness ==
  \E r \in Procs :
     /\ pc[r] = "computing"
     /\ Len(people_entities_buffer[r]) = 2
     /\ Len(loc_entities_buffer[r]) = 1
     /\ people_entities_buffer[r][1].start < people_entities_buffer[r][2].start

(* C17: every name of an entity in people_buffer is a key of the aggregate *)
(* map, with a locations mapping, so the lookup of the LOC case succeeds.  *)
C17_BufferedPersonsHaveRecords ==
  \A r \in Procs :
     \A i \in DOMAIN people_entities_buffer[r] :
        /\ HasKey(output_dict[r], people_entities_buffer[r][i].name)
        /\ "locations" \in
              DOMAIN Lookup(output_dict[r], people_entities_buffer[r][i].name)

\* a LOC span was consumed while people_buffer held two names
C17_Witness ==
  \E r \in Procs :
     /\ pc[r] = "computing"
     /\ seen[r] # <<>>
     /\ IsLoc(Last(seen[r]))
     /\ Len(people_entities_buffer[r]) = 2
     /\ people_entities_buffer[r][1].name # people_entities_buffer[r][2].name

(* C18: consuming a LOC span creates no PersonRecord, changes no person's  *)
(* count and only appends the span to loc_buffer; consuming a PERSON span  *)
(* changes only the record of its own name and only appends to             *)
(* people_buffer.                                                          *)
C18_UpdateFrames ==
  [][ \A r \in Procs :
        ConsumesSpan(r) =>
           LET e == Last(seen'[r])
           IN  /\ IsLoc(e) =>
                    /\ Keys(output_dict'[r]) = Keys(output_dict[r])
                    /\ \A i \in DOMAIN output_dict[r] :
                          output_dict'[r][i].value.count
                             = output_dict[r][i].value.count
                    /\ loc_entities_buffer'[r] =
                          Append(loc_entities_buffer[r], EntityDictOf(e))
               /\ IsPerson(e) =>
                    /\ \A i \in DOMAIN output_dict[r] :
                          output_dict[r][i].key # e.name =>
                             output_dict'[r][i] = output_dict[r][i]
                    /\ \A i \in DOMAIN output_dict'[r] :
                          i \notin DOMAIN output_dict[r] =>
                             output_dict'[r][i].key = e.name
                    /\ people_entities_buffer'[r] =
                          Append(people_entities_buffer[r], EntityDictOf(e))
                    /\ loc_entities_buffer'[r] = loc_entities_buffer[r] ]_vars

\* a second person was consumed after a location was associated with the
\* first
C18_Witness ==
  \E r \in Procs :
     /\ pc[r] = "computing"
     /\ Len(output_dict[r]) = 2
     /\ seen[r] # <<>>
     /\ IsPerson(Last(seen[r]))
     /\ output_dict[r][1].value.locations # <<>>
     /\ loc_entities_buffer[r] # <<>>

\* the steps of get_people a worker has taken for its current request
Called(r, step) == \E i \in DOMAIN calls[r] : calls[r][i] = step

InvalidBody(json_data) ==
  \/ "URL" \notin DOMAIN json_data
  \/ json_data["URL"].type # "string"

(* C19: a request body without a "URL" field, or with a "URL" that is not  *)
(* a string, is answered with a Bad Request of status 400; nothing is      *)
(* downloaded or computed and no 200 response is returned.                 *)
C19_InvalidBodyRejected ==
  \A r \in Procs :
     (Called(r, "handle_json_data") /\ InvalidBody(request_json_data[r])) =>
        /\ response[r] = [status |-> 400, kind |-> "BadRequest"]
        /\ response[r].status # 200
        /\ ~Called(r, "handle_download_file")
        /\ ~Called(r, "handle_text_file_computation")

(* C20: a GET that times out fails the request with GatewayTimeout, a      *)
(* response that is not ok fails it with a Bad Request of status 400, in   *)
(* both cases without any entity computation; a 200 response with "people" *)
(* comes only after validation, download and computation, in that order.   *)
C20_DownloadFailures ==
  \A r \in Procs :
     /\ ( /\ Called(r, "handle_download_file")
          /\ url_result[r] \in {"requests.exceptions.Timeout", "TimeoutError"} )
        => /\ response[r] = [status |-> 504, kind |-> "GatewayTimeout"]
           /\ ~Called(r, "handle_text_file_computation")
     /\ (Called(r, "handle_download_file") /\ url_result[r] = "not_ok")
        => /\ response[r] = [status |-> 400, kind |-> "BadRequest"]
           /\ ~Called(r, "handle_text_file_computation")
     /\ (response[r].status = 200 /\ response[r].kind = "people")
        => /\ calls[r] = << "get_json", "handle_json_data",
                            "handle_download_file",
                            "handle_text_file_computation", "make_response" >>
           /\ ~InvalidBody(request_json_data[r])
           /\ url_result[r] = "ok"

====
